---- MODULE Spec2Model ----
(***************************************************************************)
(* Model of act4e_checks/data.py: the fixture corpus loader                *)
(* (get_all_test_data, substitute), the fixture queries (filter_reqs) and  *)
(* the conformance verbs (loadit_, dumpit_, check_good_output).            *)
(***************************************************************************)
EXTENDS Integers, Sequences, FiniteSets, TLC

VARIABLES
    dirs,       \* the file system: directory -> file name -> parsed YAML mapping
    environ,    \* os.environ.get("ACT4E_DATA"): "" when unset, else a directory
    cache,      \* the lru_cache of get_all_test_data: NoCache or the corpus
    result,     \* what the last call of get_all_test_data returned or raised
    listed,     \* what os.listdir returned to the last call that computed
    yamls,      \* the files the last call opened, in the order it opened them
    entries,    \* substitute: the corpus argument
    node,       \* substitute: the node argument
    subst,      \* substitute: the returned value or raised error
    d,          \* filter_reqs: the mapping of fixtures
    req,        \* filter_reqs: the requirement
    selected,   \* filter_reqs: the returned mapping
    cap,        \* what the capability under test does when it is invoked
    prior,      \* the failures of the test context when the verb is invoked
    tc,         \* the failures of the test context
    outcome,    \* how the verb ended: what it returned or raised
    pc          \* position of the caller: "idle", "call", or what has run

loaderVars == <<dirs, environ, cache, result, listed, yamls>>
substVars == <<entries, node, subst>>
filterVars == <<d, req, selected>>
runnerVars == <<cap, prior, tc, outcome>>
vars == <<dirs, environ, cache, result, listed, yamls, entries, node, subst,
          d, req, selected, cap, prior, tc, outcome, pc>>

(***************************************************************************)
(* Python values.  Every value is a record of one shape:                   *)
(*   t     the runtime type name ("str", "int", "list", "dict", ...)       *)
(*   v     the content of a scalar (or the message of a raised error)      *)
(*   keys  the keys of a dict, in insertion order (values themselves)      *)
(*   items the elements of a list/tuple/set, or the values of a dict,      *)
(*         parallel to keys                                                *)
(* A raised exception is the value of type "raise" whose v names the       *)
(* exception and whose items carry its payload.                            *)
(***************************************************************************)
Val(t, v, keys, items) == [t |-> t, v |-> v, keys |-> keys, items |-> items]
Str(s) == Val("str", s, <<>>, <<>>)
Scalar(t, s) == Val(t, s, <<>>, <<>>)
List(xs) == Val("list", "", <<>>, xs)
Dict(ks, xs) == Val("dict", "", ks, xs)
Raise(exc, payload) == Val("raise", exc, <<>>, payload)
NoValue == Val("unset", "", <<>>, <<>>)

IsRaise(x) == x.t = "raise"

\* isinstance(a, dict) / isinstance(a, list)
IsDict(a) == a.t = "dict"
IsList(a) == a.t = "list"
\* list and dict are unhashable: using one as a dict key raises TypeError
Hashable(a) == a.t \notin {"list", "dict", "set"}

\* `key in a` for a dict a and a string key
HasKey(a, key) == \E i \in 1..Len(a.keys) : a.keys[i] = Str(key)
\* a[key] for a dict a that has key
GetItem(a, key) == a.items[CHOOSE i \in 1..Len(a.keys) : a.keys[i] = Str(key)]

\* The first raised error of a sequence of results evaluated left to right.
FirstRaise(rs) == rs[CHOOSE i \in 1..Len(rs) :
                        IsRaise(rs[i]) /\ \A j \in 1..(i - 1) : ~IsRaise(rs[j])]
AnyRaise(rs) == \E i \in 1..Len(rs) : IsRaise(rs[i])

CannotFind == "ZValueError: Cannot find entry to load"
Unhashable == "TypeError: unhashable type"

\* substitute resolving the references of the entry it loads as well.
RECURSIVE substituteDeep(_, _)
substituteDeep(ents, a) ==
    IF IsDict(a) THEN
        IF HasKey(a, "load") THEN
            LET loadit == GetItem(a, "load") IN
            IF ~Hashable(loadit) THEN Raise(Unhashable, <<loadit>>)
            ELSE IF loadit \notin DOMAIN ents THEN Raise(CannotFind, <<a>>)
            ELSE IF ents[loadit] = a THEN a
            ELSE substituteDeep(ents, ents[loadit])
        ELSE
            LET rs == [i \in 1..Len(a.items) |-> substituteDeep(ents, a.items[i])] IN
            IF AnyRaise(rs) THEN FirstRaise(rs) ELSE Dict(a.keys, rs)
    ELSE IF IsList(a) THEN
        LET rs == [i \in 1..Len(a.items) |-> substituteDeep(ents, a.items[i])] IN
        IF AnyRaise(rs) THEN FirstRaise(rs) ELSE List(rs)
    ELSE a

(***************************************************************************)
(* substitute(entries, a): data.py lines 160-175.  entries is a function   *)
(* from hashable values (the fixture keys) to values.                      *)
(***************************************************************************)
RECURSIVE substitute(_, _)
substitute(ents, a) ==
    IF IsDict(a) THEN
        IF HasKey(a, "load") THEN
            LET loadit == GetItem(a, "load") IN
            IF ~Hashable(loadit) THEN Raise(Unhashable, <<loadit>>)
            ELSE IF loadit \notin DOMAIN ents THEN Raise(CannotFind, <<a>>)
            ELSE ents[loadit]
        ELSE
            LET rs == [i \in 1..Len(a.items) |-> substitute(ents, a.items[i])] IN
            IF AnyRaise(rs) THEN FirstRaise(rs) ELSE Dict(a.keys, rs)
    ELSE IF IsList(a) THEN
        LET rs == [i \in 1..Len(a.items) |-> substitute(ents, a.items[i])] IN
        IF AnyRaise(rs) THEN FirstRaise(rs) ELSE List(rs)
    ELSE a

(***************************************************************************)
(* The resolution of references as the specification describes it, case by *)
(* case.  typeErrors says what a reference whose target is a list or a     *)
(* mapping does: FALSE, it is a key absent from the corpus like any other; *)
(* TRUE, looking it up raises TypeError.                                   *)
(***************************************************************************)
Range(f) == {f[i] : i \in DOMAIN f}

RECURSIVE Reference(_, _, _)
Reference(corpus, n, typeErrors) ==
    LET kids == [i \in DOMAIN n.items |-> Reference(corpus, n.items[i], typeErrors)]
        failed == {i \in DOMAIN n.items : kids[i].t = "raise"}
        target == n.items[CHOOSE i \in DOMAIN n.keys : n.keys[i].v = "load"]
    IN  CASE n.t = "dict" /\ Str("load") \in Range(n.keys) ->
                IF target \in DOMAIN corpus THEN corpus[target]
                ELSE IF typeErrors /\ target.t \in {"list", "dict"}
                     THEN Raise(Unhashable, <<target>>)
                     ELSE Raise(CannotFind, <<n>>)
          [] n.t \in {"dict", "list"} /\ Str("load") \notin Range(n.keys) ->
                IF failed = {} THEN [n EXCEPT !.items = kids]
                ELSE kids[CHOOSE i \in failed : \A j \in failed : i <= j]
          [] OTHER -> n

\* The targets of the references that resolution reaches in a value.
RECURSIVE LoadTargets(_)
LoadTargets(n) ==
    IF n.t = "dict" /\ Str("load") \in Range(n.keys)
    THEN {n.items[i] : i \in {j \in DOMAIN n.keys : n.keys[j].v = "load"}}
    ELSE UNION {LoadTargets(n.items[i]) : i \in DOMAIN n.items}

(***************************************************************************)
(* The whitelists, data.py lines 28-74.                                    *)
(***************************************************************************)
ALLOWED_TAGS ==
    {"poset", "set", "semigroup", "monoid", "group", "relation", "map", "dp",
     "category", "natural_transform"}
ALLOWED_PROPERTIES ==
    {"powerset", "some_antichains", "some_not_antichains", "some_chains",
     "some_not_chains", "surjective", "defined_everywhere", "single_valued",
     "injective", "reflexive", "irreflexive", "transitive", "asymmetric",
     "symmetric", "antisymmetric", "has_top", "height", "width", "has_bottom",
     "top", "opposite", "bottom", "lattice", "some_not_uppersets",
     "some_lowersets", "some_uppersets", "some_not_lowersets"}
ALLOWED_REQUIRES == {"set_product", "poset_product", "set_union", "poset_sum"}

ENV_VAR == "ACT4E_DATA"
\* os.path.join(os.path.dirname(__file__), "thedata")
EmbeddedDir == "thedata"

(***************************************************************************)
(* A raw record of a fixture file is a function from its top-level field   *)
(* names to their contents; tags, requires and properties are mappings     *)
(* from names to booleans, data is a value.                                *)
(***************************************************************************)
EmptyMap == <<>>
\* vv.pop(field, default)
Pop(v, field, default) == IF field \in DOMAIN v THEN v[field] ELSE default

TestData(tags, requires, data, properties) ==
    [tags |-> tags, requires |-> requires, data |-> data, properties |-> properties]

\* A dict with insertion order: the keys in order, and the mapping.
EmptyCorpus == [order |-> <<>>, recs |-> <<>>]
NoError == [exc |-> "", msg |-> "", k |-> "", fn |-> "", extra |-> {}]
ZValueError(msg, k, fn, extra) ==
    [exc |-> "ZValueError", msg |-> msg, k |-> k, fn |-> fn, extra |-> extra]
\* What a call does: it returns a corpus or raises an error.
Returned(res) == [ok |-> TRUE, res |-> res, err |-> NoError]
Raised(err) == [ok |-> FALSE, res |-> EmptyCorpus, err |-> err]
\* The empty cache; also the result before any call.
NoCache == [ok |-> FALSE, res |-> EmptyCorpus, err |-> NoError]
\* An error raised by substitute, within add_context(k=k)
FromRaise(r, k) ==
    [exc |-> IF r.v = CannotFind THEN "ZValueError" ELSE "TypeError",
     msg |-> r.v, k |-> k, fn |-> "", extra |-> {}]

\* the file names for which f.endswith(".yaml") holds
YamlNames == {"f1.yaml", "f2.yaml"}
\* find_yamls([dirname]), lines 81-87, given the order in which os.listdir
\* lists the directory
find_yamls(listing) == SelectSeq(listing, LAMBDA f : f \in YamlNames)

\* CheckRecord with the duplicate test after the validation of the record.
CheckRecordDuplicateLast(res, k, v, fn) ==
    LET requires == Pop(v, "requires", EmptyMap)
        properties == Pop(v, "properties", EmptyMap)
        tags == Pop(v, "tags", EmptyMap)
        vv == DOMAIN v \ {"tags", "data", "requires", "properties"}
    IN  IF "data" \notin DOMAIN v
            THEN ZValueError("", k, "", {})
        ELSE IF vv # {}
            THEN ZValueError("Unknown properties", "", "", vv)
        ELSE IF DOMAIN requires \ ALLOWED_REQUIRES # {}
            THEN ZValueError("Extra requires for entry", k, "",
                             DOMAIN requires \ ALLOWED_REQUIRES)
        ELSE IF DOMAIN properties \ ALLOWED_PROPERTIES # {}
            THEN ZValueError("Extra properties", "", "",
                             DOMAIN properties \ ALLOWED_PROPERTIES)
        ELSE IF DOMAIN tags \ ALLOWED_TAGS # {}
            THEN ZValueError("Extra tags", "", "", DOMAIN tags \ ALLOWED_TAGS)
        ELSE IF k \in DOMAIN res.recs
            THEN ZValueError("Found duplicate key", k, fn, {})
        ELSE NoError

\* CheckRecord testing the tags before the requires and the properties.
CheckRecordTagsFirst(res, k, v, fn) ==
    LET requires == Pop(v, "requires", EmptyMap)
        properties == Pop(v, "properties", EmptyMap)
        tags == Pop(v, "tags", EmptyMap)
        vv == DOMAIN v \ {"tags", "data", "requires", "properties"}
    IN  IF k \in DOMAIN res.recs
            THEN ZValueError("Found duplicate key", k, fn, {})
        ELSE IF "data" \notin DOMAIN v
            THEN ZValueError("", k, "", {})
        ELSE IF vv # {}
            THEN ZValueError("Unknown properties", "", "", vv)
        ELSE IF DOMAIN tags \ ALLOWED_TAGS # {}
            THEN ZValueError("Extra tags", "", "", DOMAIN tags \ ALLOWED_TAGS)
        ELSE IF DOMAIN requires \ ALLOWED_REQUIRES # {}
            THEN ZValueError("Extra requires for entry", k, "",
                             DOMAIN requires \ ALLOWED_REQUIRES)
        ELSE IF DOMAIN properties \ ALLOWED_PROPERTIES # {}
            THEN ZValueError("Extra properties", "", "",
                             DOMAIN properties \ ALLOWED_PROPERTIES)
        ELSE NoError

\* One record of the loop body, lines 114-150: the error it raises, or NoError.
CheckRecord(res, k, v, fn) ==
    LET tags == Pop(v, "tags", EmptyMap)
        requires == Pop(v, "requires", EmptyMap)
        properties == Pop(v, "properties", EmptyMap)
        vv == DOMAIN v \ {"tags", "data", "requires", "properties"}
        extra_requires == DOMAIN requires \ ALLOWED_REQUIRES
        extra_properties == DOMAIN properties \ ALLOWED_PROPERTIES
        extra_tags == DOMAIN tags \ ALLOWED_TAGS
    IN  IF k \in DOMAIN res.recs
            THEN ZValueError("Found duplicate key", k, fn, {})
        ELSE IF "data" \notin DOMAIN v
            THEN ZValueError("", k, "", {})
        ELSE IF vv # {}
            THEN ZValueError("Unknown properties", "", "", vv)
        ELSE IF extra_requires # {}
            THEN ZValueError("Extra requires for entry", k, "", extra_requires)
        ELSE IF extra_properties # {}
            THEN ZValueError("Extra properties", "", "", extra_properties)
        ELSE IF extra_tags # {}
            THEN ZValueError("Extra tags", "", "", extra_tags)
        ELSE NoError

\* res[k] = TestData(...), line 150
StoreRecord(res, k, v) ==
    [order |-> Append(res.order, k),
     recs |-> (k :> TestData(Pop(v, "tags", EmptyMap), Pop(v, "requires", EmptyMap),
                             v["data"], Pop(v, "properties", EmptyMap))) @@ res.recs]

\* The loop over the entries of one file, lines 114-150, from entry i on.
RECURSIVE LoadFile(_, _, _, _)
LoadFile(res, doc, fn, i) ==
    IF i > Len(doc) THEN [err |-> NoError, res |-> res]
    ELSE LET e == CheckRecord(res, doc[i].k, doc[i].v, fn) IN
         IF e # NoError THEN [err |-> e, res |-> res]
         ELSE LoadFile(StoreRecord(res, doc[i].k, doc[i].v), doc, fn, i + 1)

\* LoadFiles leaving the loop after the first file.
LoadFilesFirstOnly(res, dir, fns, i) ==
    IF Len(fns) = 0 THEN [err |-> NoError, res |-> res, opened |-> 0]
    ELSE LET r == LoadFile(res, dir[fns[1]], fns[1], 1) IN
         [err |-> r.err, res |-> r.res, opened |-> 1]

\* The loop over the files, lines 109-150, from file i on.
RECURSIVE LoadFiles(_, _, _, _)
LoadFiles(res, dir, fns, i) ==
    IF i > Len(fns) THEN [err |-> NoError, res |-> res, opened |-> Len(fns)]
    ELSE LET r == LoadFile(res, dir[fns[i]], fns[i], 1) IN
         IF r.err # NoError THEN [err |-> r.err, res |-> r.res, opened |-> i]
         ELSE LoadFiles(r.res, dir, fns, i + 1)

\* entries = {k: v.data for k, v in res.items()}, line 152
EntriesOf(res) ==
    [key \in {Str(k) : k \in DOMAIN res.recs} |-> res.recs[key.v].data]

\* ResolveAll looking references up in the records as resolved so far.
RECURSIVE ResolveAllInPlace(_, _, _)
ResolveAllInPlace(res, ents, i) ==
    IF i > Len(res.order) THEN [err |-> NoError, res |-> res]
    ELSE LET k == res.order[i]
             r == substitute(EntriesOf(res), res.recs[k].data)
         IN  IF IsRaise(r) THEN [err |-> FromRaise(r, k), res |-> res]
             ELSE ResolveAllInPlace([res EXCEPT !.recs[k].data = r], ents, i + 1)

\* The resolution loop, lines 153-155, from the i-th key of res on.
RECURSIVE ResolveAll(_, _, _)
ResolveAll(res, ents, i) ==
    IF i > Len(res.order) THEN [err |-> NoError, res |-> res]
    ELSE LET k == res.order[i]
             r == substitute(ents, res.recs[k].data)
         IN  IF IsRaise(r) THEN [err |-> FromRaise(r, k), res |-> res]
             ELSE ResolveAll([res EXCEPT !.recs[k].data = r], ents, i + 1)

\* dirname, lines 92-103
DirName(env) == IF env # "" THEN env ELSE EmbeddedDir

\* The body of get_all_test_data, lines 92-157, for the directory listing
\* os.listdir returns.
get_all_test_data(fs, env, listing) ==
    LET fns == find_yamls(listing)
        loaded == LoadFiles(EmptyCorpus, fs[DirName(env)], fns, 1)
        resolved == ResolveAll(loaded.res, EntriesOf(loaded.res), 1)
    IN  [opened |-> SubSeq(fns, 1, loaded.opened),
         out |-> IF loaded.err # NoError THEN Raised(loaded.err)
                 ELSE IF resolved.err # NoError THEN Raised(resolved.err)
                 ELSE Returned(resolved.res)]

\* lru_cache computing at every call.
lruCacheNeverHit(cached, computed) ==
    [value |-> computed.out, opened |-> computed.opened,
     keep |-> IF computed.out.ok THEN computed.out ELSE cached]

\* @lru_cache() on a function without arguments, line 90: a returned value is
\* kept and returned by every later call; a raised error is not kept.
lru_cache(cached, computed) ==
    IF cached # NoCache THEN [value |-> cached, keep |-> cached, opened |-> <<>>]
    ELSE [value |-> computed.out, opened |-> computed.opened,
          keep |-> IF computed.out.ok THEN computed.out ELSE NoCache]

\* os.listdir(dirname): the names of the directory's files, in any order
Listings(dir) == {s \in [1..Cardinality(DOMAIN dir) -> DOMAIN dir] :
                    \A i, j \in DOMAIN s : i # j => s[i] # s[j]}

Dirs == {EmbeddedDir, "custom"}

(***************************************************************************)
(* The fixture sets of the specification of the loader: two YAML files     *)
(* with at most MaxRecords records between them, the keys of one file      *)
(* pairwise distinct (a file is one YAML mapping).                         *)
(***************************************************************************)
MaxRecords == 3

Keys == {"a", "b"}

Meta(requires, properties, tags) ==
    ("requires" :> requires) @@ ("properties" :> properties) @@ ("tags" :> tags)
GoodRequires == ("set_union" :> TRUE)
BadRequires == ("set_union" :> TRUE) @@ ("set_power" :> FALSE)
GoodProperties == ("height" :> TRUE)
BadProperties == ("height" :> TRUE) @@ ("depth" :> TRUE)
GoodTags == ("poset" :> TRUE)
BadTags == ("poset" :> TRUE) @@ ("ring" :> TRUE) @@ ("field" :> FALSE)

\* data values with and without references
Ref(key) == Dict(<<Str("load")>>, <<key>>)
DataValues ==
    {Ref(Str("a")), Ref(Str("b")), Ref(Str("zz")),
     Dict(<<Str("x")>>, <<List(<<Ref(Str("b"))>>)>>)}

\* The raw records the files are made of: every combination of good and bad
\* requires, properties and tags in at most two of the three maps; a record
\* without data; a record with an unknown field; records with references.
MetaRecords ==
    {Meta(m[1], m[2], m[3]) @@ ("data" :> Scalar("int", "1")) :
        m \in ({GoodRequires, BadRequires} \X {GoodProperties, BadProperties}
                 \X {GoodTags, BadTags}) \ {<<BadRequires, BadProperties, BadTags>>}}
RawRecords ==
    MetaRecords
    \cup {Meta(GoodRequires, GoodProperties, GoodTags)}
    \cup {("data" :> Scalar("int", "1")) @@ ("comment" :> Str("todo"))}
    \cup {("data" :> x) : x \in DataValues}

FileContents(n) ==
    {doc \in [1..n -> [k : Keys, v : RawRecords]] :
        \A i, j \in 1..n : i # j => doc[i].k # doc[j].k}

Notes == <<[k |-> "a", v |-> ("data" :> Str("not a fixture file"))]>>

Directory(d1, d2) == ("f1.yaml" :> d1) @@ ("f2.yaml" :> d2)

EmptyDir == Directory(<<>>, <<>>) @@ ("notes.txt" :> Notes)

LoaderIdle ==
    /\ dirs = <<>>
    /\ environ = ""
    /\ cache = NoCache
    /\ result = NoCache
    /\ listed = <<>>
    /\ yamls = <<>>

\* A call of get_all_test_data().
GetAllTestData ==
    \E listing \in Listings(dirs[DirName(environ)]) :
        LET call == lru_cache(cache, get_all_test_data(dirs, environ, listing)) IN
        /\ result' = call.value
        /\ cache' = call.keep
        /\ yamls' = call.opened
        /\ listed' = IF cache # NoCache THEN listed ELSE listing
        /\ UNCHANGED <<dirs, environ, pc>>
        /\ UNCHANGED <<substVars, filterVars, runnerVars>>

SubstituteIdle ==
    /\ entries = <<>>
    /\ node = NoValue
    /\ subst = NoValue

(***************************************************************************)
(* filter_reqs(d, req): data.py lines 296-303.  A dict is its keys in      *)
(* insertion order and its mapping.                                        *)
(***************************************************************************)
\* the test of line 300 with `in` for `==`
RequiresContains(v, rq) == rq \in DOMAIN v.requires

\* requires = set(v.requires); requires == {req}: lines 299-300
RequiresMatch(v, rq) ==
    LET requires == DOMAIN v.requires IN requires = {rq}

RECURSIVE FilterLoop(_, _, _, _)
FilterLoop(dd, rq, i, res) ==
    IF i > Len(dd.order) THEN res
    ELSE LET k == dd.order[i]
             v == dd.recs[k]
         IN  FilterLoop(dd, rq, i + 1,
                 IF RequiresMatch(v, rq)
                 THEN [order |-> Append(res.order, k), recs |-> (k :> v) @@ res.recs]
                 ELSE res)

filter_reqs(dd, rq) == FilterLoop(dd, rq, 1, EmptyCorpus)

FilterIdle ==
    /\ d = EmptyCorpus
    /\ req = ""
    /\ selected = EmptyCorpus

(***************************************************************************)
(* The runtime types: isinstance(x, T) holds when T is the type of x or    *)
(* one of its bases.                                                       *)
(***************************************************************************)
\* act4e_interfaces.InvalidFormat, a plain exception class
InvalidFormatBases == {"InvalidFormat", "Exception", "BaseException"}
Bases(t) ==
    CASE t = "bool" -> {"bool", "int"}
      [] t = "namedtuple" -> {"namedtuple", "tuple"}
      [] t = "MyFiniteSet" -> {"MyFiniteSet", "FiniteSet"}
      [] t = "NotImplementedError" ->
            {"NotImplementedError", "RuntimeError", "Exception", "BaseException"}
      [] t = "InvalidFormat" -> InvalidFormatBases
      [] t = "ValueError" -> {"ValueError", "Exception", "BaseException"}
      [] t = "KeyboardInterrupt" -> {"KeyboardInterrupt", "BaseException"}
      [] t = "SystemExit" -> {"SystemExit", "BaseException"}
      [] OTHER -> {t}
IsInstance(x, T) == T \in Bases(x.t)
None == Scalar("NoneType", "")

(***************************************************************************)
(* The test context (zuper_testint.TestContext) as the verbs use it: fail  *)
(* records a failure, expect_type2 records one when the value is no        *)
(* instance of the type, raise_if_failures raises ImplementationFail when  *)
(* a failure is recorded.                                                  *)
(***************************************************************************)
Failure(msg, typename, x) == [msg |-> msg, typename |-> typename, x |-> x]
tc_fail(ctx, msg, typename, x) == Append(ctx, Failure(msg, typename, x))
tc_expect_type2(ctx, res, K, msg) ==
    IF IsInstance(res, K) THEN ctx ELSE tc_fail(ctx, msg, K, res)
tc_raise_if_failures(ctx) == Len(ctx) > 0

TupleMsg == "You cannot use tuples for the concrete representation"
DatatypeMsg == "you used an object of type"

\* check_good_output reporting a tuple and going on to the next test.
RECURSIVE checkGoodOutputNoReturn(_, _)
checkGoodOutputNoReturn(ctx, x) ==
    LET OK == {"int", "float", "bool", "datetime", "dict", "list", "str"}
        c1 == IF IsInstance(x, "tuple") THEN tc_fail(ctx, TupleMsg, "", x) ELSE ctx
    IN  IF ~\E T \in OK : IsInstance(x, T) THEN tc_fail(c1, DatatypeMsg, x.t, x)
        ELSE LET step(c, i) == checkGoodOutputNoReturn(c, x.items[i])
                 RECURSIVE each(_, _)
                 each(c, i) == IF i > Len(x.items) THEN c ELSE each(step(c, i), i + 1)
                 c2 == IF IsInstance(x, "list") THEN each(c1, 1) ELSE c1
             IN  IF IsInstance(x, "dict") THEN each(c2, 1) ELSE c2

\* check_good_output(tc, x): data.py lines 271-293; the failures of tc after it.
RECURSIVE check_good_output(_, _)
check_good_output(ctx, x) ==
    LET OK == {"int", "float", "bool", "datetime", "dict", "list", "str"} IN
    IF IsInstance(x, "tuple") THEN tc_fail(ctx, TupleMsg, "", x)
    ELSE IF ~\E T \in OK : IsInstance(x, T) THEN tc_fail(ctx, DatatypeMsg, x.t, x)
    ELSE LET step(c, i) == check_good_output(c, x.items[i])
             RECURSIVE each(_, _)
             each(c, i) == IF i > Len(x.items) THEN c ELSE each(step(c, i), i + 1)
             c2 == IF IsInstance(x, "list") THEN each(ctx, 1) ELSE ctx
         IN  IF IsInstance(x, "dict") THEN each(c2, 1) ELSE c2

(***************************************************************************)
(* The verbs.  A capability either returns a value or raises an exception  *)
(* of some class; a verb ends by returning a value or raising.             *)
(***************************************************************************)
Returns(x) == [kind |-> "return", exc |-> "", value |-> x]
Raises(exc) == [kind |-> "raise", exc |-> exc, value |-> None]
ExcValue(c) == Scalar(c.exc, "")

NotInvoked == [verb |-> "", K |-> "", end |-> Returns(None)]

\* loadit_ catching Exception where the code catches BaseException.
loaditCatchesException(ctx, c, K) ==
    IF c.kind = "raise" THEN
        IF IsInstance(ExcValue(c), "NotImplementedError") THEN
            [tc |-> ctx, end |-> Raises(c.exc)]
        ELSE IF IsInstance(ExcValue(c), "InvalidFormat") THEN
            [tc |-> tc_fail(ctx, "load() threw InvalidFormat but the format is valid",
                            "InvalidFormat", None),
             end |-> Raises("ImplementationFail")]
        ELSE IF IsInstance(ExcValue(c), "Exception") THEN
            [tc |-> tc_fail(ctx, "load() threw an exception but the format is valid",
                            c.exc, None),
             end |-> Raises("ImplementationFail")]
        ELSE [tc |-> ctx, end |-> Raises(c.exc)]
    ELSE
        LET res == c.value
            c1 == tc_expect_type2(ctx, res, K, "Expected that load() returns a K")
        IN  IF tc_raise_if_failures(c1)
            THEN [tc |-> c1, end |-> Raises("ImplementationFail")]
            ELSE [tc |-> c1, end |-> Returns(res)]

\* loadit_(tc, loader, h, data, K): data.py lines 252-268
loadit_(ctx, c, K) ==
    IF c.kind = "raise" THEN
        IF IsInstance(ExcValue(c), "NotImplementedError") THEN
            [tc |-> ctx, end |-> Raises(c.exc)]
        ELSE IF IsInstance(ExcValue(c), "InvalidFormat") THEN
            [tc |-> tc_fail(ctx, "load() threw InvalidFormat but the format is valid",
                            "InvalidFormat", None),
             end |-> Raises("ImplementationFail")]
        ELSE IF IsInstance(ExcValue(c), "BaseException") THEN
            [tc |-> tc_fail(ctx, "load() threw an exception but the format is valid",
                            c.exc, None),
             end |-> Raises("ImplementationFail")]
        ELSE [tc |-> ctx, end |-> Raises(c.exc)]
    ELSE
        LET res == c.value
            c1 == tc_expect_type2(ctx, res, K, "Expected that load() returns a K")
        IN  IF tc_raise_if_failures(c1)
            THEN [tc |-> c1, end |-> Raises("ImplementationFail")]
            ELSE [tc |-> c1, end |-> Returns(res)]

\* dumpit_(tc, fsr, h, ob): data.py lines 235-249
dumpit_(ctx, c) ==
    IF c.kind = "raise" THEN
        IF IsInstance(ExcValue(c), "Exception") THEN
            [tc |-> tc_fail(ctx, "save() raised an exception", c.exc, None),
             end |-> Raises("ImplementationFail")]
        ELSE [tc |-> ctx, end |-> Raises(c.exc)]
    ELSE
        LET res == c.value IN
        IF res = None THEN
            [tc |-> tc_fail(ctx, "save() returned None", "", None),
             end |-> Raises("ImplementationFail")]
        ELSE LET c1 == check_good_output(ctx, res) IN
             IF tc_raise_if_failures(c1)
             THEN [tc |-> c1, end |-> Raises("ImplementationFail")]
             ELSE [tc |-> c1, end |-> Returns(res)]

RunnerIdle ==
    /\ cap = Returns(None)
    /\ prior = <<>>
    /\ tc = <<>>
    /\ outcome = NotInvoked

(***************************************************************************)
(* Bounded sets of values: every value with at most n nodes, built from    *)
(* the given leaves, container types and dict keys.                        *)
(***************************************************************************)
MaxNodes == 4

\* sequences of pairwise distinct elements of S, of length n
RECURSIVE DistinctSeqs(_, _)
DistinctSeqs(S, n) ==
    IF n = 0 THEN {<<>>}
    ELSE {Append(s, x) : s \in DistinctSeqs(S, n - 1), x \in S} \cap
         {s \in [1..n -> S] : \A i, j \in 1..n : i # j => s[i] # s[j]}

RECURSIVE Trees(_, _, _, _)
RECURSIVE Forests(_, _, _, _)
Forests(n, leaves, kinds, dkeys) ==
    IF n = 0 THEN {<<>>}
    ELSE {<<>>} \cup UNION {
        {<<x>> \o f : x \in Trees(k, leaves, kinds, dkeys),
                      f \in Forests(n - k, leaves, kinds, dkeys)} : k \in 1..n}
Trees(n, leaves, kinds, dkeys) ==
    IF n = 0 THEN {}
    ELSE leaves
         \cup UNION {{Val(kd, "", <<>>, f) : f \in Forests(n - 1, leaves, kinds, dkeys)} :
                     kd \in kinds \ {"dict"}}
         \cup IF "dict" \in kinds
              THEN UNION {{Dict(ks, f) : ks \in DistinctSeqs(dkeys, Len(f))} :
                          f \in Forests(n - 1, leaves, kinds, dkeys)}
              ELSE {}

(***************************************************************************)
(* Specification of substitute as a pure function: the corpus and the      *)
(* node are drawn from bounded sets, one call is made.                     *)
(***************************************************************************)
SubKeys == {Str("a"), Str("b")}
SubLeaves == {Str("a"), Str("q")}
SubDictKeys == {Str("load"), Str("x")}
SubEntryValues == {Str("s"), List(<<Str("a")>>), Dict(<<Str("load")>>, <<Str("b")>>)}
SubNodes == Trees(MaxNodes, SubLeaves, {"list", "dict"}, SubDictKeys)
SubEntries == UNION {[D -> SubEntryValues] : D \in SUBSET SubKeys}

InitSubstitute ==
    /\ entries \in SubEntries
    /\ node \in SubNodes
    /\ subst = NoValue
    /\ pc = "call"
    /\ LoaderIdle
    /\ FilterIdle
    /\ RunnerIdle

CallSubstitute ==
    /\ pc = "call"
    /\ subst' = substitute(entries, node)
    /\ pc' = "done"
    /\ UNCHANGED <<entries, node>>
    /\ UNCHANGED <<loaderVars, filterVars, runnerVars>>

NextSubstitute == CallSubstitute

(***************************************************************************)
(* Specification of the loader: the embedded directory holds any fixture   *)
(* set, and get_all_test_data is called any number of times.               *)
(***************************************************************************)

Init ==
    /\ \E n1, n2 \in 0..MaxRecords :
        /\ n1 + n2 <= MaxRecords
        /\ \E d1 \in FileContents(n1), d2 \in FileContents(n2) :
            dirs = (EmbeddedDir :> Directory(d1, d2)) @@ ("custom" :> EmptyDir)
    /\ environ = ""
    /\ cache = NoCache
    /\ result = NoCache
    /\ listed = <<>>
    /\ yamls = <<>>
    /\ pc = "idle"
    /\ SubstituteIdle
    /\ FilterIdle
    /\ RunnerIdle

Next == GetAllTestData

Spec == Init /\ [][Next]_vars

(***************************************************************************)
(* What the claims about the loader speak of, stated on the fixture files  *)
(* themselves.                                                             *)
(***************************************************************************)
\* the last call computed the corpus (it was not answered from the cache)
Computed == listed # <<>>

\* The entries of the YAML files of the directory, in the order read.
RECURSIVE Flatten(_, _, _)
Flatten(dir, fns, i) ==
    IF i > Len(fns) THEN <<>>
    ELSE [j \in 1..Len(dir[fns[i]]) |->
            [fn |-> fns[i], k |-> dir[fns[i]][j].k, v |-> dir[fns[i]][j].v]]
         \o Flatten(dir, fns, i + 1)
ReadOrder == Flatten(dirs[DirName(environ)], find_yamls(listed), 1)

KeysOfField(v, field) == IF field \in DOMAIN v THEN DOMAIN v[field] ELSE {}
ExtraRequires(v) == KeysOfField(v, "requires") \ ALLOWED_REQUIRES
ExtraProperties(v) == KeysOfField(v, "properties") \ ALLOWED_PROPERTIES
ExtraTags(v) == KeysOfField(v, "tags") \ ALLOWED_TAGS
ExtraKeys(v) == ExtraRequires(v) \cup ExtraProperties(v) \cup ExtraTags(v)
MissingData(v) == "data" \notin DOMAIN v
UnknownFields(v) == DOMAIN v \ {"tags", "requires", "properties", "data"}
Invalid(v) == MissingData(v) \/ UnknownFields(v) # {} \/ ExtraKeys(v) # {}

\* entry j repeats the key of an entry read before it (of another file)
SecondOccurrence(E, j) == \E i \in 1..(j - 1) : E[i].k = E[j].k
DuplicateKeys(E) == {E[j].k : j \in {i \in 1..Len(E) : SecondOccurrence(E, i)}}
FailsAt(E, j) == SecondOccurrence(E, j) \/ Invalid(E[j].v)
\* an invalid record is read before entry j
InvalidBefore(E, j) == \E i \in 1..(j - 1) : Invalid(E[i].v)
\* entry j is the first second occurrence of a key in read order
FirstSecondOccurrence(E, j) ==
    SecondOccurrence(E, j) /\ \A i \in 1..(j - 1) : ~SecondOccurrence(E, i)
\* entry j is the first entry in read order at which loading fails
FirstFailure(E, j) == FailsAt(E, j) /\ \A i \in 1..(j - 1) : ~FailsAt(E, i)

IsDuplicateError(err, k, fn) ==
    err.exc = "ZValueError" /\ err.msg = "Found duplicate key" /\ err.k = k /\ err.fn = fn

\* C1 (as claimed): whenever a key is in two files, loading fails with the
\* duplicate-key error that names that key.
C1_DuplicateAlwaysNamed ==
    Computed => \A k \in DuplicateKeys(ReadOrder) :
        ~result.ok /\ result.err.msg = "Found duplicate key" /\ result.err.k = k

\* C1 (amended): when a key is in two files loading never returns a corpus;
\* the error is the duplicate-key error naming the key (and file) of the
\* first second occurrence in read order exactly when no record read before
\* that occurrence is invalid; otherwise the first invalid record's error is
\* raised, which is not a duplicate-key error.
C1_DuplicateKeyFails ==
    Computed => \A j \in 1..Len(ReadOrder) :
        FirstSecondOccurrence(ReadOrder, j) =>
            /\ ~result.ok
            /\ IF InvalidBefore(ReadOrder, j)
               THEN result.err.msg # "Found duplicate key"
               ELSE IsDuplicateError(result.err, ReadOrder[j].k, ReadOrder[j].fn)

\* C1 witness: a duplicate-key error raised for a second occurrence that is
\* itself an invalid record, after a valid first file.
C1_Witness ==
    /\ Computed
    /\ \E j \in 1..Len(ReadOrder) :
        /\ FirstSecondOccurrence(ReadOrder, j)
        /\ Invalid(ReadOrder[j].v)
        /\ j > 2
        /\ IsDuplicateError(result.err, ReadOrder[j].k, ReadOrder[j].fn)


SpecSubstitute == InitSubstitute /\ [][NextSubstitute]_vars

\* C4 (as claimed): substitute returns what the reference operator returns,
\* a reference to anything that is no key of the corpus failing with "Cannot
\* find entry to load", and leaves its arguments as they were.
C4_SubstituteIsReference ==
    [][pc = "call" => /\ subst' = Reference(entries, node, FALSE)
                      /\ entries' = entries
                      /\ node' = node]_vars

\* C4 (amended): substitute returns what the reference operator returns,
\* except that a reference whose target is a list or a mapping fails with
\* TypeError (unhashable) instead of "Cannot find entry to load"; its
\* arguments are left as they were.
C4_SubstituteIsReferenceOrTypeError ==
    [][pc = "call" => /\ subst' = Reference(entries, node, TRUE)
                      /\ entries' = entries
                      /\ node' = node]_vars

\* C4 witness: a mapping without "load" holding a list that holds a
\* reference to an entry of the corpus, resolved to a value that differs
\* from the node.
C4_Witness ==
    /\ pc = "done"
    /\ IsDict(node) /\ ~HasKey(node, "load")
    /\ \E i \in 1..Len(node.items) :
        /\ IsList(node.items[i])
        /\ \E j \in 1..Len(node.items[i].items) :
            LET ref == node.items[i].items[j] IN
            /\ IsDict(ref) /\ HasKey(ref, "load")
            /\ GetItem(ref, "load") \in DOMAIN entries
            /\ IsDict(subst) /\ subst.keys = node.keys
            /\ subst.items[i].items[j] = entries[GetItem(ref, "load")]
            /\ subst # node

\* every entry read is a record with data, known fields and whitelisted keys
NoDuplicateKeys(E) == DuplicateKeys(E) = {}
CorpusKeys(E) == {Str(E[j].k) : j \in 1..Len(E)}
RecordCount == Len(result.res.order)

\* C2 (as claimed): without duplicate keys, unknown top-level fields and keys
\* outside the whitelists, loading succeeds with one record per entry.
C2_LoadsWhenWhitelisted ==
    (/\ Computed
     /\ NoDuplicateKeys(ReadOrder)
     /\ \A j \in 1..Len(ReadOrder) :
            UnknownFields(ReadOrder[j].v) = {} /\ ExtraKeys(ReadOrder[j].v) = {})
    => (result.ok /\ RecordCount = Len(ReadOrder))

\* C2 (amended): if moreover every record has a data field and every
\* reference reached in a record's data names a key of the corpus, loading
\* succeeds and returns exactly one record per entry of the files.
C2_LoadsWhenWellFormed ==
    (/\ Computed
     /\ NoDuplicateKeys(ReadOrder)
     /\ \A j \in 1..Len(ReadOrder) :
            /\ ~Invalid(ReadOrder[j].v)
            /\ LoadTargets(ReadOrder[j].v["data"]) \subseteq CorpusKeys(ReadOrder))
    => (/\ result.ok
        /\ RecordCount = Len(ReadOrder)
        /\ DOMAIN result.res.recs = {ReadOrder[j].k : j \in 1..Len(ReadOrder)}
        /\ Cardinality(DOMAIN result.res.recs) = Len(ReadOrder))

\* C2 witness: a corpus of two records from two non-empty files, one of them
\* a reference, loaded.
C2_Witness ==
    /\ Computed
    /\ result.ok
    /\ Len(yamls) = 2
    /\ \A i \in 1..2 : Len(dirs[DirName(environ)][yamls[i]]) = 1
    /\ RecordCount = 2
    /\ \E j \in 1..Len(ReadOrder) : LoadTargets(ReadOrder[j].v["data"]) # {}

\* the extra keys of the first of requires, properties, tags that has any
FirstExtraKeys(v) ==
    IF ExtraRequires(v) # {} THEN ExtraRequires(v)
    ELSE IF ExtraProperties(v) # {} THEN ExtraProperties(v)
    ELSE ExtraTags(v)
FirstExtraMessage(v) ==
    IF ExtraRequires(v) # {} THEN "Extra requires for entry"
    ELSE IF ExtraProperties(v) # {} THEN "Extra properties"
    ELSE "Extra tags"

\* C3 (as claimed): a record with a key outside the whitelists makes loading
\* fail with an error that lists exactly all the extra keys of the record.
C3_ListsAllExtraKeys ==
    Computed => \A j \in 1..Len(ReadOrder) :
        ExtraKeys(ReadOrder[j].v) # {} =>
            ~result.ok /\ result.err.extra = ExtraKeys(ReadOrder[j].v)

\* C3 (amended): a record with a key outside the whitelists makes loading
\* fail; when it is the first record in read order at which loading fails,
\* is no duplicate, has data and no unknown field, the error lists exactly
\* the extra keys of the first of requires, properties, tags that has any.
C3_ListsFirstExtraKeys ==
    Computed => \A j \in 1..Len(ReadOrder) :
        ExtraKeys(ReadOrder[j].v) # {} =>
            /\ ~result.ok
            /\ (/\ FirstFailure(ReadOrder, j)
                /\ ~SecondOccurrence(ReadOrder, j)
                /\ ~MissingData(ReadOrder[j].v)
                /\ UnknownFields(ReadOrder[j].v) = {})
               => (/\ result.err.exc = "ZValueError"
                   /\ result.err.msg = FirstExtraMessage(ReadOrder[j].v)
                   /\ result.err.extra = FirstExtraKeys(ReadOrder[j].v))

\* C3 witness: the load fails at a record with extra requires and extra tags,
\* read after a valid record, and the error lists the extra requires alone.
C3_Witness ==
    /\ Computed
    /\ \E j \in 2..Len(ReadOrder) :
        /\ FirstFailure(ReadOrder, j)
        /\ ExtraRequires(ReadOrder[j].v) # {}
        /\ ExtraTags(ReadOrder[j].v) # {}
        /\ result.err.extra = ExtraRequires(ReadOrder[j].v)
        /\ result.err.extra # ExtraKeys(ReadOrder[j].v)

\* the unresolved data of every record, as the files give it
Snapshot(E) ==
    [key \in CorpusKeys(E) |->
        E[CHOOSE j \in 1..Len(E) : E[j].k = key.v].v["data"]]
FinalData(k) == result.res.recs[k].data

\* C10: after a successful load the data of every record is the resolution
\* of its original data against the unresolved data of all records; so a
\* reference to a record yields that record's unresolved data, with any
\* reference of its own still in place, also when the reference is to the
\* record itself or closes a cycle.
C10_SinglePassOverSnapshot ==
    (Computed /\ result.ok) => \A j \in 1..Len(ReadOrder) :
        LET k == ReadOrder[j].k
            original == ReadOrder[j].v["data"]
        IN  /\ FinalData(k) = Reference(Snapshot(ReadOrder), original, TRUE)
            /\ \A i \in 1..Len(ReadOrder) :
                  original = Ref(Str(ReadOrder[i].k))
                      => FinalData(k) = ReadOrder[i].v["data"]

\* C10 witness: a loaded corpus in which a record refers to a record read
\* before it whose own data holds a reference, and a record refers to
\* itself or to a cycle.
C10_Witness ==
    /\ Computed
    /\ result.ok
    /\ \E i, j \in 1..Len(ReadOrder) :
        /\ i < j
        /\ ReadOrder[j].v["data"] = Ref(Str(ReadOrder[i].k))
        /\ ReadOrder[i].v["data"] = Ref(Str(ReadOrder[j].k))
        /\ FinalData(ReadOrder[j].k) = ReadOrder[i].v["data"]
        /\ FinalData(ReadOrder[i].k) = ReadOrder[j].v["data"]

(***************************************************************************)
(* Specification of the cache: between the calls of get_all_test_data the  *)
(* environment variable is set or unset and the fixture directories are    *)
(* rewritten.                                                              *)
(***************************************************************************)
GoodRecord == Meta(GoodRequires, GoodProperties, GoodTags) @@ ("data" :> Scalar("int", "1"))
CacheDirs ==
    {EmptyDir,
     Directory(<<[k |-> "a", v |-> GoodRecord]>>, <<>>),
     Directory(<<[k |-> "a", v |-> GoodRecord]>>,
               <<[k |-> "b", v |-> ("data" :> Ref(Str("a")))]>>),
     Directory(<<[k |-> "a", v |-> Meta(GoodRequires, GoodProperties, BadTags)]>>, <<>>)}

InitCache ==
    /\ dirs \in [Dirs -> CacheDirs]
    /\ environ \in {""} \cup (Dirs \ {EmbeddedDir})
    /\ cache = NoCache
    /\ result = NoCache
    /\ listed = <<>>
    /\ yamls = <<>>
    /\ pc = "idle"
    /\ SubstituteIdle
    /\ FilterIdle
    /\ RunnerIdle

\* os.environ["ACT4E_DATA"] is set, or unset
SetEnviron ==
    /\ \E e \in {""} \cup (Dirs \ {EmbeddedDir}) : e # environ /\ environ' = e
    /\ UNCHANGED <<dirs, cache, result, listed, yamls, pc>>
    /\ UNCHANGED <<substVars, filterVars, runnerVars>>

\* the fixture files of a directory are rewritten
WriteFixtures ==
    /\ \E dn \in Dirs, fx \in CacheDirs :
          fx # dirs[dn] /\ dirs' = [dirs EXCEPT ![dn] = fx]
    /\ UNCHANGED <<environ, cache, result, listed, yamls, pc>>
    /\ UNCHANGED <<substVars, filterVars, runnerVars>>

NextCache == GetAllTestData \/ SetEnviron \/ WriteFixtures

SpecCache == InitCache /\ [][NextCache]_vars

\* C5: a corpus that a call computed and returned is kept; from then on the
\* cache never changes, and every call returns the kept corpus and opens no
\* file, whatever the environment variable and the fixture files are then.
C5_ComputedOncePerProcess ==
    [][/\ (GetAllTestData /\ cache = NoCache /\ result'.ok) => cache' = result'
       /\ cache # NoCache =>
            /\ cache' = cache
            /\ GetAllTestData => (result' = cache /\ yamls' = <<>>)]_vars

\* C5 witness: a call answered from the cache, no file opened, while every
\* reading of the current files would give another outcome.
C5_Witness ==
    /\ cache # NoCache
    /\ result = cache
    /\ yamls = <<>>
    /\ \A listing \in Listings(dirs[DirName(environ)]) :
          get_all_test_data(dirs, environ, listing).out # cache

(***************************************************************************)
(* Specification of filter_reqs as a pure function: a mapping of at most   *)
(* MaxFixtures fixtures and a requirement are drawn, one call is made.     *)
(***************************************************************************)
MaxFixtures == 2

FilterKeys == {"a", "b", "c"}
Requirements == {"set_union", "poset_sum", "set_product"}
RequiresMaps == UNION {[D -> BOOLEAN] : D \in SUBSET {"set_union", "poset_sum"}}
FilterRecords == {TestData(EmptyMap, r, Scalar("int", "1"), EmptyMap) : r \in RequiresMaps}

InitFilter ==
    /\ \E n \in 0..MaxFixtures : \E order \in DistinctSeqs(FilterKeys, n) :
          \E recs \in [Range(order) -> FilterRecords] :
              d = [order |-> order, recs |-> recs]
    /\ req \in Requirements
    /\ selected = EmptyCorpus
    /\ pc = "call"
    /\ LoaderIdle
    /\ SubstituteIdle
    /\ RunnerIdle

CallFilterReqs ==
    /\ pc = "call"
    /\ selected' = filter_reqs(d, req)
    /\ pc' = "filtered"
    /\ UNCHANGED <<d, req>>
    /\ UNCHANGED <<loaderVars, substVars, runnerVars>>

NextFilter == CallFilterReqs

SpecFilter == InitFilter /\ [][NextFilter]_vars

\* the mapping dd with every boolean under a requires key replaced by b
WithValues(dd, b) ==
    [dd EXCEPT !.recs = [k \in DOMAIN dd.recs |->
        [dd.recs[k] EXCEPT !.requires = [r \in DOMAIN dd.recs[k].requires |-> b]]]]

\* C9: filter_reqs returns exactly the records of d whose requires keys are
\* the one key req, unchanged; a record that has req with another key, or
\* no requires key, is left out; the booleans under the keys play no part.
C9_FilterReqsExactMatch ==
    pc = "filtered" =>
        LET want == {k \in DOMAIN d.recs : DOMAIN d.recs[k].requires = {req}} IN
        /\ DOMAIN selected.recs = want
        /\ Range(selected.order) = want
        /\ Len(selected.order) = Cardinality(want)
        /\ \A k \in want : selected.recs[k] = d.recs[k]
        /\ \A k \in DOMAIN d.recs :
              (DOMAIN d.recs[k].requires = {} \/ DOMAIN d.recs[k].requires \ {req} # {})
                  => k \notin DOMAIN selected.recs
        /\ \A b \in BOOLEAN :
              DOMAIN filter_reqs(WithValues(d, b), req).recs = DOMAIN selected.recs

\* C9 witness: of two records that both require req, the one that requires
\* it alone, with the boolean FALSE, is returned and the one that requires
\* another key as well is not.
C9_Witness ==
    /\ pc = "filtered"
    /\ Len(d.order) = 2
    /\ \A k \in DOMAIN d.recs : req \in DOMAIN d.recs[k].requires
    /\ Len(selected.order) = 1
    /\ selected.recs[selected.order[1]].requires[req] = FALSE

(***************************************************************************)
(* Specification of the verbs: a capability that returns a value of at     *)
(* most MaxOutNodes nodes or raises, a test context with or without an     *)
(* earlier failure, and one invocation of loadit_, dumpit_ or              *)
(* check_good_output.                                                      *)
(***************************************************************************)
MaxOutNodes == 3

OutLeaves ==
    {Scalar("int", "1"), Scalar("float", "1.5"), Scalar("bool", "True"),
     Scalar("datetime", "2020-01-01"), Str("s"), None,
     Val("namedtuple", "", <<>>, <<>>)}
OutKinds == {"list", "dict", "tuple", "set"}
OutDictKeys == {Str("k"), Val("tuple", "", <<>>, <<>>)}
OutValues == Trees(MaxOutNodes, OutLeaves, OutKinds, OutDictKeys)
LoadValues == {Val("FiniteSet", "", <<>>, <<>>), Val("MyFiniteSet", "", <<>>, <<>>)}
Exceptions ==
    {"NotImplementedError", "InvalidFormat", "ValueError", "KeyboardInterrupt",
     "SystemExit"}
ExpectedTypes == {"FiniteSet", "dict"}
PriorContexts == {<<>>, <<Failure("a failure recorded earlier", "", None)>>}

InitRunner ==
    /\ cap \in {Returns(x) : x \in OutValues \cup LoadValues}
                \cup {Raises(e) : e \in Exceptions}
    /\ prior \in PriorContexts
    /\ tc = prior
    /\ outcome = NotInvoked
    /\ pc = "call"
    /\ LoaderIdle
    /\ SubstituteIdle
    /\ FilterIdle

Loadit ==
    /\ pc = "call"
    /\ \E K \in ExpectedTypes :
        LET r == loadit_(tc, cap, K) IN
        /\ tc' = r.tc
        /\ outcome' = [verb |-> "loadit_", K |-> K, end |-> r.end]
    /\ pc' = "done"
    /\ UNCHANGED <<cap, prior>>
    /\ UNCHANGED <<loaderVars, substVars, filterVars>>

Dumpit ==
    /\ pc = "call"
    /\ LET r == dumpit_(tc, cap) IN
        /\ tc' = r.tc
        /\ outcome' = [verb |-> "dumpit_", K |-> "", end |-> r.end]
    /\ pc' = "done"
    /\ UNCHANGED <<cap, prior>>
    /\ UNCHANGED <<loaderVars, substVars, filterVars>>

CheckGoodOutput ==
    /\ pc = "call"
    /\ cap.kind = "return"
    /\ tc' = check_good_output(tc, cap.value)
    /\ outcome' = [verb |-> "check_good_output", K |-> "", end |-> Returns(None)]
    /\ pc' = "done"
    /\ UNCHANGED <<cap, prior>>
    /\ UNCHANGED <<loaderVars, substVars, filterVars>>

NextRunner == Loadit \/ Dumpit \/ CheckGoodOutput

SpecRunner == InitRunner /\ [][NextRunner]_vars

\* the failures the invocation recorded, after those recorded before it
KeepsPrior == Len(tc) >= Len(prior) /\ SubSeq(tc, 1, Len(prior)) = prior
Recorded == SubSeq(tc, Len(prior) + 1, Len(tc))

\* C6: loadit_ ends in exactly one of three ways: it returns the loader's
\* result, an instance of K; the loader's NotImplementedError propagates
\* and no failure is recorded; or ImplementationFail is raised with a
\* failure in the test context, one recorded by this invocation when the
\* loader raised InvalidFormat or anything else or returned no instance of K.
C6_LoaditThreeOutcomes ==
    outcome.verb = "loadit_" =>
        LET Success == /\ outcome.end.kind = "return"
                       /\ cap.kind = "return"
                       /\ outcome.end.value = cap.value
                       /\ IsInstance(cap.value, outcome.K)
            Unimplemented == /\ cap.kind = "raise"
                             /\ IsInstance(ExcValue(cap), "NotImplementedError")
                             /\ outcome.end = Raises(cap.exc)
                             /\ tc = prior
            Failed == outcome.end = Raises("ImplementationFail")
            Broken == \/ cap.kind = "raise" /\ ~IsInstance(ExcValue(cap), "NotImplementedError")
                      \/ cap.kind = "return" /\ ~IsInstance(cap.value, outcome.K)
        IN  /\ KeepsPrior
            /\ Cardinality({i \in 1..3 : <<Success, Unimplemented, Failed>>[i]}) = 1
            /\ Failed => Len(tc) >= 1
            /\ Broken => (/\ Failed
                          /\ Len(Recorded) = 1
                          /\ Recorded[1].msg # ""
                          /\ cap.kind = "raise" => Recorded[1].typename = cap.exc)

\* C6 witness: the loader raised KeyboardInterrupt; a failure naming it was
\* recorded and ImplementationFail raised.
C6_Witness ==
    /\ outcome.verb = "loadit_"
    /\ cap = Raises("KeyboardInterrupt")
    /\ outcome.end = Raises("ImplementationFail")
    /\ Len(Recorded) = 1
    /\ Recorded[1].typename = "KeyboardInterrupt"

\* C7: in dumpit_ anything the save capability raises, and a None result,
\* is recorded as a failure and raised as ImplementationFail; a value is
\* returned only if save returned it, it is not None and the validator
\* records no violation for it.
C7_DumpitRecordsEveryError ==
    outcome.verb = "dumpit_" =>
        /\ (cap.kind = "raise" \/ cap.value = None) =>
              (/\ outcome.end = Raises("ImplementationFail")
               /\ Len(Recorded) = 1)
        /\ outcome.end.kind = "return" =>
              (/\ cap.kind = "return"
               /\ cap.value # None
               /\ outcome.end.value = cap.value
               /\ check_good_output(<<>>, cap.value) = <<>>)

\* The paths into a value: the indices of elements and values, from the root.
RECURSIVE Paths(_)
Paths(x) ==
    {<<>>} \cup UNION {{<<i>> \o p : p \in Paths(x.items[i])} : i \in 1..Len(x.items)}
RECURSIVE NodeAt(_, _)
NodeAt(x, p) == IF p = <<>> THEN x ELSE NodeAt(x.items[Head(p)], Tail(p))

AllowedTypes == {"int", "float", "bool", "datetime", "str", "list", "dict"}
Disallowed(n) == Bases(n.t) \cap AllowedTypes = {} \/ "tuple" \in Bases(n.t)
AllowedContainer(n) == ~Disallowed(n) /\ Bases(n.t) \cap {"list", "dict"} # {}
\* every node above the node at p is a list or a dict
ReachedThroughContainers(x, p) ==
    \A n \in 0..(Len(p) - 1) : AllowedContainer(NodeAt(x, SubSeq(p, 1, n)))
BadPaths(x) == {p \in Paths(x) : ReachedThroughContainers(x, p) /\ Disallowed(NodeAt(x, p))}
ViolationOf(n) ==
    IF "tuple" \in Bases(n.t) THEN Failure(TupleMsg, "", n)
    ELSE Failure(DatatypeMsg, n.t, n)
Count(seq, f) == Cardinality({i \in DOMAIN seq : seq[i] = f})

\* C8: check_good_output records exactly one violation for each node of a
\* disallowed type reached from the root through elements of lists and
\* values of dicts, the tuple violation for a tuple and the datatype
\* violation naming the type for any other, and no other violation.
C8_OneViolationPerBadNode ==
    outcome.verb = "check_good_output" =>
        LET bad == BadPaths(cap.value)
            want == {ViolationOf(NodeAt(cap.value, p)) : p \in bad}
        IN  /\ KeepsPrior
            /\ Len(Recorded) = Cardinality(bad)
            /\ \A f \in Range(Recorded) \cup want :
                  Count(Recorded, f) =
                      Cardinality({p \in bad : ViolationOf(NodeAt(cap.value, p)) = f})

\* C8 witness: a list holding a tuple that holds a value of a disallowed
\* type; the tuple violation alone is recorded.
C8_Witness ==
    /\ outcome.verb = "check_good_output"
    /\ cap.value.t = "list"
    /\ Len(cap.value.items) = 1
    /\ cap.value.items[1].t = "tuple"
    /\ Len(cap.value.items[1].items) = 1
    /\ Disallowed(cap.value.items[1].items[1])
    /\ Len(Recorded) = 1
    /\ Recorded[1].msg = TupleMsg

====
